---- MODULE Spec2Model ----
(***************************************************************************)
(* Model of robofactor/refactoring/extractor.py: extract_large_functions   *)
(* reads a Python source file, parses it, walks the tree with a depth      *)
(* counter for class nesting, extracts the source lines of every function  *)
(* visited at depth 0, keeps those of at least min_lines lines, sorts them *)
(* by line count (descending) and optionally dumps them as JSON.           *)
(*                                                                         *)
(* Source text is a sequence of characters over a small alphabet:          *)
(*   "NL"  line feed            "FF"  form feed (U+000C)                   *)
(*   "SP"  one indentation unit "#"   start of a comment                   *)
(*   "def" "class" ":" "stmt"   tokens, and function names "f1", "f2", ... *)
(***************************************************************************)
EXTENDS Integers, Sequences, FiniteSets, TLC

\* Longest source file, in physical lines.
MaxLines == 4
\* Largest size threshold passed as min_lines.
MaxMinLines == 2
\* Longest list of linter names passed to lint_file.
MaxLinters == 2
\* Number of webhook requests sent to the application.
MaxRequests == 2

VARIABLES
    input_file,    \* the file at filepath: [exists, decodable, content]
    min_lines,     \* argument min_lines
    output_file,   \* argument output_file: "" (None) or a path
    out_content,   \* content of the file at output_file: a sequence of chunks
    out_handle,    \* the file object f of line 86: "none", "open" or "closed"
    pc,            \* position of the call in extract_large_functions
    source_code,   \* local source_code
    source_lines,  \* local source_lines
    tree,          \* local tree: FunctionDef and ClassDef nodes in document order
    path,          \* the visitor's stack of nodes entered and not yet left
    next,          \* index in tree of the next node the walk enters
    depth,         \* FunctionFinder.depth
    functions,     \* local functions
    exc,           \* the exception in flight: [type, text]
    outcome,       \* what the caller gets: [status, type, message, value]
    peer,          \* a second call of extract_large_functions, while the
                   \* thread of the first one runs: all of the above, and id
    \* auto_lint.lint_file
    file_path,     \* argument file_path: [exists, suffix]
    linters,       \* local linters (line 84), a sequence of names
    auto_fix,      \* argument auto_fix
    tools,         \* what running each tool's command does on this machine
    linter_idx,    \* position of the for loop of line 90 in linters
    results,       \* local results: a function from linter names to LintResult
    lint_stdout,   \* lines printed
    lint_pc,       \* position of the call in lint_file
    lint_outcome,  \* what the caller of lint_file gets: [status, type]
    \* app.main
    WEBHOOK_SECRET, \* module global of line 8
    request,       \* the request being handled: [body, event, signature]
    response,      \* the answer to it
    web_stdout,    \* event types printed by the handler
    handled        \* number of requests answered

extractVars == <<input_file, min_lines, output_file, out_content, out_handle, pc,
                 source_code, source_lines, tree, path, next, depth, functions,
                 exc, outcome>>

lintVars == <<file_path, linters, auto_fix, tools, linter_idx, results,
              lint_stdout, lint_pc, lint_outcome>>

webVars == <<WEBHOOK_SECRET, request, response, web_stdout, handled>>

vars == <<extractVars, peer, lintVars, webVars>>

----------------------------------------------------------------------------
(* Source documents the model analyses.                                    *)

\* A document is a sequence of lines [kind, indent]; kinds:
\*   "def"   header line  `def fN():`  followed by an indented body
\*   "def1"  one-line function `def fN(): stmt`
\*   "class" header line  `class C:`
\*   "stmt"  a simple statement
\*   "blank" an empty line
\*   "ffc"   a comment-only line holding a form feed, `#<FF>`
CodeKinds == {"def", "def1", "class", "stmt"}
HeaderKinds == {"def", "class"}

NoLine == [kind |-> "none", indent |-> 0]

RECURSIVE LastCodeLine(_)
LastCodeLine(d) ==
    IF d = <<>> THEN NoLine
    ELSE IF d[Len(d)].kind \in CodeKinds THEN d[Len(d)]
    ELSE LastCodeLine(SubSeq(d, 1, Len(d) - 1))

AllowedIndents(d) ==
    LET p == LastCodeLine(d)
    IN  IF p.kind = "none" THEN {0}
        ELSE IF p.kind \in HeaderKinds THEN {p.indent + 1}
        ELSE 0 .. p.indent

NextLines(d) ==
    {[kind |-> "blank", indent |-> 0], [kind |-> "ffc", indent |-> 0]}
    \cup {[kind |-> k, indent |-> i] : k \in CodeKinds, i \in AllowedIndents(d)}

RECURSIVE DocsOfLen(_)
DocsOfLen(n) ==
    IF n = 0 THEN {<<>>}
    ELSE UNION {{Append(d, l) : l \in NextLines(d)} : d \in DocsOfLen(n - 1)}

\* Every well-indented document of at most MaxLines lines; one that ends in a
\* header without a body is not valid Python.
Docs == UNION {DocsOfLen(n) : n \in 0 .. MaxLines}

FuncName(i) == "f" \o ToString(i)

RECURSIVE Spaces(_)
Spaces(n) == IF n = 0 THEN <<>> ELSE <<"SP">> \o Spaces(n - 1)

\* The characters of line i of a document, without its line terminator.
LineText(l, i) ==
    Spaces(l.indent) \o
    CASE l.kind = "def"   -> <<"def", FuncName(i), ":">>
      [] l.kind = "def1"  -> <<"def", FuncName(i), ":", "stmt">>
      [] l.kind = "class" -> <<"class", ":">>
      [] l.kind = "stmt"  -> <<"stmt">>
      [] l.kind = "blank" -> <<>>
      [] l.kind = "ffc"   -> <<"#", "FF">>

RECURSIVE RenderFrom(_, _)
RenderFrom(d, i) ==
    IF i > Len(d) THEN <<>>
    ELSE LineText(d[i], i) \o <<"NL">> \o RenderFrom(d, i + 1)

\* The text of a document: every line ends with a line feed.
Render(d) == RenderFrom(d, 1)

----------------------------------------------------------------------------
(* Lines of a text.                                                        *)

RECURSIVE SplitAt(_, _, _, _)
SplitAt(s, seps, i, cur) ==
    IF i > Len(s) THEN (IF cur = <<>> THEN <<>> ELSE <<cur>>)
    ELSE IF s[i] \in seps THEN <<cur>> \o SplitAt(s, seps, i + 1, <<>>)
    ELSE SplitAt(s, seps, i + 1, Append(cur, s[i]))

\* The line boundaries of str.splitlines() that the alphabet has.
SplitlinesBoundaries == {"NL", "FF"}

\* str.splitlines(): no empty last line after a final boundary.
splitlines(s) == SplitAt(s, SplitlinesBoundaries, 1, <<>>)

\* The physical lines the parser numbers: only a line feed ends a line.
ParserLines(s) == SplitAt(s, {"NL"}, 1, <<>>)

\* '\n'.join(lines)
RECURSIVE JoinNL(_)
JoinNL(lines) ==
    IF lines = <<>> THEN <<>>
    ELSE IF Len(lines) = 1 THEN lines[1]
    ELSE lines[1] \o <<"NL">> \o JoinNL(Tail(lines))

\* Python slice seq[lo:hi] for 0 <= lo: 0-based, hi exclusive, and silently
\* clipped to the sequence.
Slice(seq, lo, hi) ==
    LET b == IF hi > Len(seq) THEN Len(seq) ELSE hi
    IN  IF lo >= b THEN <<>> ELSE SubSeq(seq, lo + 1, b)

----------------------------------------------------------------------------
(* The parser: cst.parse_module and the PositionProvider metadata.         *)

RECURSIVE Indent(_)
Indent(l) == IF l # <<>> /\ l[1] = "SP" THEN 1 + Indent(Tail(l)) ELSE 0

Stripped(l) == SubSeq(l, Indent(l) + 1, Len(l))

\* What a physical line is to the parser; an empty or comment-only line
\* carries no statement.
KindOf(l) ==
    LET b == Stripped(l)
    IN  IF b = <<>> THEN "blank"
        ELSE IF b[1] = "#" THEN "blank"
        ELSE IF b[1] = "def" THEN (IF Len(b) = 3 THEN "def" ELSE "def1")
        ELSE IF b[1] = "class" THEN "class"
        ELSE "stmt"

IsCode(l) == KindOf(l) # "blank"

\* Indentation rules: the first statement is not indented, a header is followed
\* by a body indented one level more, anything else by a statement indented
\* no more than itself.  pk, pi: kind and indent of the previous statement.
RECURSIVE WellFormedFrom(_, _, _, _)
WellFormedFrom(ls, i, pk, pi) ==
    IF i > Len(ls) THEN pk \notin HeaderKinds
    ELSE IF ~IsCode(ls[i]) THEN WellFormedFrom(ls, i + 1, pk, pi)
    ELSE /\ IF pk = "none" THEN Indent(ls[i]) = 0
            ELSE IF pk \in HeaderKinds THEN Indent(ls[i]) = pi + 1
            ELSE Indent(ls[i]) <= pi
         /\ WellFormedFrom(ls, i + 1, KindOf(ls[i]), Indent(ls[i]))

\* Whether cst.parse_module accepts the text (else ParserSyntaxError).
ParseOk(s) == WellFormedFrom(ParserLines(s), 1, "none", 0)

SetMin(S) == CHOOSE x \in S : \A y \in S : x <= y
SetMax(S) == CHOOSE x \in S : \A y \in S : x >= y

\* Last line of the block a header at line i opens: the last statement before
\* the next statement indented no more than the header.  Trailing blank and
\* comment-only lines are outside the node's position.
BlockEnd(ls, i) ==
    LET d == Indent(ls[i])
        stops == {k \in (i + 1) .. Len(ls) : IsCode(ls[k]) /\ Indent(ls[k]) <= d}
        stop == IF stops = {} THEN Len(ls) + 1 ELSE SetMin(stops)
    IN  SetMax({j \in (i + 1) .. (stop - 1) : IsCode(ls[j])})

\* A FunctionDef or ClassDef node with its position (1-indexed physical lines).
NodeAt(ls, i) ==
    LET k == KindOf(ls[i])
    IN  [type  |-> IF k = "class" THEN "ClassDef" ELSE "FunctionDef",
         name  |-> IF k = "class" THEN "" ELSE Stripped(ls[i])[2],
         start |-> i,
         end   |-> IF k = "def1" THEN i ELSE BlockEnd(ls, i)]

RECURSIVE NodesFrom(_, _)
NodesFrom(ls, i) ==
    IF i > Len(ls) THEN <<>>
    ELSE (IF KindOf(ls[i]) \in {"def", "def1", "class"}
          THEN <<NodeAt(ls, i)>> ELSE <<>>) \o NodesFrom(ls, i + 1)

\* The tree of a valid text, as far as the visitor sees it: its FunctionDef and
\* ClassDef nodes in document order; a node's children are the nodes within
\* its span.
parse_module(s) == NodesFrom(ParserLines(s), 1)

----------------------------------------------------------------------------
(* Extraction, ranking and serialisation.                                  *)

extract_function_info(node, lines) ==
    LET start_line == node.start
        end_line == node.end
        line_count == end_line - start_line + 1
    IN  [function_name |-> node.name,
         line_count    |-> line_count,
         code          |-> JoinNL(Slice(lines, start_line - 1, end_line))]

\* Variant: the depth test is off by one.
IsTopLevelVisitOffByOne(d) == d <= 1

\* Line 47: only functions visited outside every class are looked at.
IsTopLevelVisit(d) == d = 0

\* Variant: the threshold is exclusive.
IsLargeStrict(func_info, minLines) == func_info.line_count > minLines

\* Line 49: the size threshold.
IsLarge(func_info, minLines) == func_info.line_count >= minLines

\* list.sort(key=line_count, reverse=True): descending and stable; each element
\* goes behind every element already placed that is at least as large.
RECURSIVE InsertDesc(_, _)
InsertDesc(sorted, x) ==
    IF sorted = <<>> THEN <<x>>
    ELSE IF sorted[1].line_count >= x.line_count
         THEN <<sorted[1]>> \o InsertDesc(Tail(sorted), x)
         ELSE <<x>> \o sorted

\* Variant: sorted(functions, key=line_count)[::-1], which is descending but
\* turns equal elements around.
RECURSIVE InsertAsc(_, _)
InsertAsc(sorted, x) ==
    IF sorted = <<>> THEN <<x>>
    ELSE IF sorted[1].line_count <= x.line_count
         THEN <<sorted[1]>> \o InsertAsc(Tail(sorted), x)
         ELSE <<x>> \o sorted

RECURSIVE SortAsc(_)
SortAsc(fs) ==
    IF fs = <<>> THEN <<>>
    ELSE InsertAsc(SortAsc(SubSeq(fs, 1, Len(fs) - 1)), fs[Len(fs)])

SortAscReversed(fs) ==
    LET a == SortAsc(fs) IN [i \in 1 .. Len(a) |-> a[Len(a) + 1 - i]]

RECURSIVE SortDesc(_)
SortDesc(fs) ==
    IF fs = <<>> THEN <<>>
    ELSE InsertDesc(SortDesc(SubSeq(fs, 1, Len(fs) - 1)), fs[Len(fs)])

\* json.dump escapes control characters inside a string.
Escape(c) == IF c = "NL" THEN "bs_n" ELSE IF c = "FF" THEN "bs_f" ELSE c

Unescape(c) == IF c = "bs_n" THEN "NL" ELSE IF c = "bs_f" THEN "FF" ELSE c

\* A JSON string literal of a sequence of characters.
JsonStr(s) == <<"dq">> \o [i \in 1 .. Len(s) |-> Escape(s[i])] \o <<"dq">>

\* The chunks json.dump writes for one record, fields in insertion order.
RecordChunks(r) ==
    << <<"{">>,
       <<"function_name", ":">> \o JsonStr(<<r.function_name>>),
       <<"line_count", ":", ToString(r.line_count)>>,
       <<"code", ":">> \o JsonStr(r.code),
       <<"}">> >>

RECURSIVE AllRecordChunks(_)
AllRecordChunks(fs) ==
    IF fs = <<>> THEN <<>> ELSE RecordChunks(fs[1]) \o AllRecordChunks(Tail(fs))

\* Variant: one object after the other, without the enclosing array.
json_dump_objects(fs) == AllRecordChunks(fs)

\* json.dump(functions, f, indent=2, ensure_ascii=False): the sequence of
\* chunks handed to f.write.
json_dump(fs) ==
    IF fs = <<>> THEN << <<"[]">> >>
    ELSE << <<"[">> >> \o AllRecordChunks(fs) \o << <<"]">> >>

\* Whether a file content is one complete JSON array of records.
IsJsonArray(cs) ==
    \/ cs = << <<"[]">> >>
    \/ /\ Len(cs) >= 7
       /\ (Len(cs) - 2) % 5 = 0
       /\ cs[1] = <<"[">>
       /\ cs[Len(cs)] = <<"]">>
       /\ \A k \in 0 .. ((Len(cs) - 2) \div 5 - 1) :
            LET i == 2 + 5 * k
            IN  /\ cs[i] = <<"{">>
                /\ Len(cs[i + 1]) = 5 /\ cs[i + 1][1] = "function_name"
                /\ Len(cs[i + 2]) = 3 /\ cs[i + 2][1] = "line_count"
                /\ Len(cs[i + 3]) >= 4 /\ cs[i + 3][1] = "code"
                /\ cs[i + 4] = <<"}">>

ParseInt(str) == CHOOSE n \in 0 .. (MaxLines + 1) : ToString(n) = str

\* The characters of a JSON string literal that starts at position i of a chunk
\* and ends with the chunk.
UnStr(chunk, i) ==
    [k \in 1 .. (Len(chunk) - i - 1) |-> Unescape(chunk[i + k])]

\* json.load of a complete array: the list of records read back.
json_load(cs) ==
    IF cs = << <<"[]">> >> THEN <<>>
    ELSE [k \in 1 .. ((Len(cs) - 2) \div 5) |->
            LET i == 2 + 5 * (k - 1)
            IN  [function_name |-> UnStr(cs[i + 1], 3)[1],
                 line_count    |-> ParseInt(cs[i + 2][3]),
                 code          |-> UnStr(cs[i + 3], 3)]]

----------------------------------------------------------------------------
(* extract_large_functions(filepath, min_lines, output_file), step by step. *)

filepath == "in.py"
OutPath == "out.json"

\* What the destination holds before the call.
OldContent == << <<"old">> >>

InputFiles ==
    {[exists |-> TRUE, decodable |-> TRUE, content |-> Render(d)] : d \in Docs}
    \cup {[exists |-> FALSE, decodable |-> TRUE, content |-> <<>>],
          [exists |-> TRUE, decodable |-> FALSE, content |-> <<>>]}

NoExc == [type |-> "", text |-> ""]

\* No second call.
NoPeer ==
    [id |-> 0, input_file |-> <<>>, min_lines |-> 0, output_file |-> "",
     out_content |-> <<>>, out_handle |-> "none", pc |-> "none",
     source_code |-> <<>>, source_lines |-> <<>>, tree |-> <<>>, path |-> <<>>,
     next |-> 1, depth |-> 0, functions |-> <<>>,
     exc |-> [type |-> "", text |-> ""],
     outcome |-> [status |-> "none", type |-> "", message |-> <<>>,
                  value |-> <<>>]]

\* lint_file is not called.
LintIdle ==
    /\ file_path = [exists |-> FALSE, suffix |-> ""]
    /\ linters = <<>>
    /\ auto_fix = FALSE
    /\ tools = <<>>
    /\ linter_idx = 1
    /\ results = <<>>
    /\ lint_stdout = <<>>
    /\ lint_pc = "none"
    /\ lint_outcome = [status |-> "none", type |-> ""]

\* The web application is not started.
WebIdle ==
    /\ WEBHOOK_SECRET = ""
    /\ request = [body |-> "", event |-> "", signature |-> ""]
    /\ response = ""
    /\ web_stdout = <<>>
    /\ handled = 0
Running == [status |-> "running", type |-> "", message |-> <<>>, value |-> <<>>]

Init ==
    /\ input_file \in InputFiles
    /\ min_lines \in 1 .. MaxMinLines
    /\ output_file \in {"", OutPath}
    /\ out_content = OldContent
    /\ out_handle = "none"
    /\ pc = "read"
    /\ source_code = <<>>
    /\ source_lines = <<>>
    /\ tree = <<>>
    /\ path = <<>>
    /\ next = 1
    /\ depth = 0
    /\ functions = <<>>
    /\ exc = NoExc
    /\ outcome = Running
    /\ peer = NoPeer
    /\ LintIdle
    /\ WebIdle

\* An exception leaves the try body for the handler of line 91.
Raise(type, text) ==
    /\ pc' = "except"
    /\ exc' = [type |-> type, text |-> text]

\* Lines 76-77: open the input and read it all.
ReadFile ==
    /\ pc = "read"
    /\ IF ~input_file.exists
       THEN Raise("FileNotFoundError", "No such file or directory")
            /\ UNCHANGED source_code
       ELSE IF ~input_file.decodable
       THEN Raise("UnicodeDecodeError", "invalid start byte")
            /\ UNCHANGED source_code
       ELSE /\ source_code' = input_file.content
            /\ pc' = "parse"
            /\ UNCHANGED exc
    /\ UNCHANGED <<peer, lintVars, webVars>>
    /\ UNCHANGED <<input_file, min_lines, output_file, out_content, out_handle,
                   source_lines, tree, path, next, depth, functions, outcome>>

\* Variant: the destination is opened before the source is parsed.
ParseAfterOpen ==
    /\ pc = "parse"
    /\ source_lines' = splitlines(source_code)
    /\ IF output_file # ""
       THEN out_content' = <<>> /\ out_handle' = "open"
       ELSE UNCHANGED <<out_content, out_handle>>
    /\ IF ParseOk(source_code)
       THEN /\ tree' = parse_module(source_code)
            /\ pc' = "find"
            /\ UNCHANGED exc
       ELSE Raise("ParserSyntaxError", "Syntax Error") /\ UNCHANGED tree
    /\ UNCHANGED <<peer, lintVars, webVars>>
    /\ UNCHANGED <<input_file, min_lines, output_file, source_code, path, next,
                   depth, functions, outcome>>

\* Lines 79-80: split into lines, then parse.
Parse ==
    /\ pc = "parse"
    /\ source_lines' = splitlines(source_code)
    /\ IF ParseOk(source_code)
       THEN /\ tree' = parse_module(source_code)
            /\ pc' = "find"
            /\ UNCHANGED exc
       ELSE Raise("ParserSyntaxError", "Syntax Error") /\ UNCHANGED tree
    /\ UNCHANGED <<peer, lintVars, webVars>>
    /\ UNCHANGED <<input_file, min_lines, output_file, out_content, out_handle,
                   source_code, path, next, depth, functions, outcome>>

\* Lines 37-38, 44, 58-59: a fresh list and a fresh visitor start the walk.
StartFind ==
    /\ pc = "find"
    /\ functions' = <<>>
    /\ depth' = 0
    /\ path' = <<>>
    /\ next' = 1
    /\ pc' = "visit"
    /\ UNCHANGED <<peer, lintVars, webVars>>
    /\ UNCHANGED <<input_file, min_lines, output_file, out_content, out_handle,
                   source_code, source_lines, tree, exc, outcome>>

Top == path[Len(path)]

\* The walk is depth first, in document order: the next node is entered if it
\* lies within the node the walk is in.
CanEnter ==
    /\ next <= Len(tree)
    /\ IF path = <<>> THEN TRUE ELSE tree[next].start <= tree[Top].end

\* Variant: a function is looked at only when the walk is in no node at all.
visit_FunctionDef_generic_nesting ==
    /\ pc = "visit"
    /\ CanEnter
    /\ tree[next].type = "FunctionDef"
    /\ LET func_info == extract_function_info(tree[next], source_lines)
       IN  functions' = IF path = <<>> /\ IsLarge(func_info, min_lines)
                        THEN Append(functions, func_info)
                        ELSE functions
    /\ path' = Append(path, next)
    /\ next' = next + 1
    /\ UNCHANGED <<peer, lintVars, webVars>>
    /\ UNCHANGED <<input_file, min_lines, output_file, out_content, out_handle,
                   pc, source_code, source_lines, tree, depth, exc, outcome>>

\* Lines 46-50.
visit_FunctionDef ==
    /\ pc = "visit"
    /\ CanEnter
    /\ tree[next].type = "FunctionDef"
    /\ LET func_info == extract_function_info(tree[next], source_lines)
       IN  functions' = IF IsTopLevelVisit(depth) /\ IsLarge(func_info, min_lines)
                        THEN Append(functions, func_info)
                        ELSE functions
    /\ path' = Append(path, next)
    /\ next' = next + 1
    /\ UNCHANGED <<peer, lintVars, webVars>>
    /\ UNCHANGED <<input_file, min_lines, output_file, out_content, out_handle,
                   pc, source_code, source_lines, tree, depth, exc, outcome>>

\* Lines 52-53.
visit_ClassDef ==
    /\ pc = "visit"
    /\ CanEnter
    /\ tree[next].type = "ClassDef"
    /\ depth' = depth + 1
    /\ path' = Append(path, next)
    /\ next' = next + 1
    /\ UNCHANGED <<peer, lintVars, webVars>>
    /\ UNCHANGED <<input_file, min_lines, output_file, out_content, out_handle,
                   pc, source_code, source_lines, tree, functions, exc, outcome>>

\* Variant: leaving a class does not decrement.
leave_ClassDef_no_decrement ==
    /\ pc = "visit"
    /\ path # <<>>
    /\ ~CanEnter
    /\ tree[Top].type = "ClassDef"
    /\ path' = SubSeq(path, 1, Len(path) - 1)
    /\ UNCHANGED <<peer, lintVars, webVars>>
    /\ UNCHANGED <<input_file, min_lines, output_file, out_content, out_handle,
                   pc, source_code, source_lines, tree, next, depth, functions,
                   exc, outcome>>

\* Lines 55-56.
leave_ClassDef ==
    /\ pc = "visit"
    /\ path # <<>>
    /\ ~CanEnter
    /\ tree[Top].type = "ClassDef"
    /\ depth' = depth - 1
    /\ path' = SubSeq(path, 1, Len(path) - 1)
    /\ UNCHANGED <<peer, lintVars, webVars>>
    /\ UNCHANGED <<input_file, min_lines, output_file, out_content, out_handle,
                   pc, source_code, source_lines, tree, next, functions, exc,
                   outcome>>

\* The visitor has no leave_FunctionDef: the walk just returns to the parent.
leave_FunctionDef ==
    /\ pc = "visit"
    /\ path # <<>>
    /\ ~CanEnter
    /\ tree[Top].type = "FunctionDef"
    /\ path' = SubSeq(path, 1, Len(path) - 1)
    /\ UNCHANGED <<peer, lintVars, webVars>>
    /\ UNCHANGED <<input_file, min_lines, output_file, out_content, out_handle,
                   pc, source_code, source_lines, tree, next, depth, functions,
                   exc, outcome>>

\* Line 60: the walk is over, _find_large_functions returns.
EndFind ==
    /\ pc = "visit"
    /\ path = <<>>
    /\ next > Len(tree)
    /\ pc' = "sort"
    /\ UNCHANGED <<peer, lintVars, webVars>>
    /\ UNCHANGED <<input_file, min_lines, output_file, out_content, out_handle,
                   source_code, source_lines, tree, path, next, depth, functions,
                   exc, outcome>>

\* Line 83.
Sort ==
    /\ pc = "sort"
    /\ functions' = SortDesc(functions)
    /\ pc' = "persist"
    /\ UNCHANGED <<peer, lintVars, webVars>>
    /\ UNCHANGED <<input_file, min_lines, output_file, out_content, out_handle,
                   source_code, source_lines, tree, path, next, depth, exc,
                   outcome>>

\* Variant: `if output_file and functions:`.
WantsOutputIfAny(outputFile, fs) == outputFile # "" /\ fs # <<>>

\* Line 85: `if output_file:`.
WantsOutput(outputFile, fs) == outputFile # ""

\* Line 86: open(output_file, 'w') empties the file, or fails and leaves it.
OpenOutput ==
    /\ pc = "persist"
    /\ WantsOutput(output_file, functions)
    /\ \/ /\ out_content' = <<>>
          /\ out_handle' = "open"
          /\ pc' = "write"
          /\ UNCHANGED exc
       \/ /\ Raise("PermissionError", "Permission denied")
          /\ UNCHANGED <<out_content, out_handle>>
    /\ UNCHANGED <<peer, lintVars, webVars>>
    /\ UNCHANGED <<input_file, min_lines, output_file, source_code, source_lines,
                   tree, path, next, depth, functions, outcome>>

\* Line 87: json.dump writes chunk after chunk; a write may fail (disk full),
\* and the with statement closes the file on the way out.
WriteChunk ==
    /\ pc = "write"
    /\ Len(out_content) < Len(json_dump(functions))
    /\ \/ /\ out_content' =
                Append(out_content, json_dump(functions)[Len(out_content) + 1])
          /\ UNCHANGED <<out_handle, pc, exc>>
       \/ /\ Raise("OSError", "No space left on device")
          /\ out_handle' = "closed"
          /\ UNCHANGED out_content
    /\ UNCHANGED <<peer, lintVars, webVars>>
    /\ UNCHANGED <<input_file, min_lines, output_file, source_code, source_lines,
                   tree, path, next, depth, functions, outcome>>

\* Line 89 (after the with block closed the file, if there is one).
Return ==
    /\ \/ /\ pc = "persist"
          /\ ~WantsOutput(output_file, functions)
          /\ UNCHANGED out_handle
       \/ /\ pc = "write"
          /\ Len(out_content) = Len(json_dump(functions))
          /\ out_handle' = "closed"
    /\ pc' = "done"
    /\ outcome' = [status |-> "returned", type |-> "list", message |-> <<>>,
                   value |-> functions]
    /\ UNCHANGED <<peer, lintVars, webVars>>
    /\ UNCHANGED <<input_file, min_lines, output_file, out_content, source_code,
                   source_lines, tree, path, next, depth, functions, exc>>

\* Line 91: `except Exception` catches every exception the body raises.
ExceptionClasses ==
    {"FileNotFoundError", "UnicodeDecodeError", "ParserSyntaxError",
     "PermissionError", "OSError", "MemoryError"}

\* Variant: `except OSError`.
CaughtOSError(e) ==
    e.type \in {"FileNotFoundError", "PermissionError", "OSError"}

Caught(e) == e.type \in ExceptionClasses

\* Line 92: the error the caller gets for an exception e in flight.
Reraised(e) ==
    IF Caught(e)
    THEN [status |-> "raised", type |-> "RuntimeError",
          message |-> <<"Error processing file ", filepath, ": ", e.text>>,
          value |-> <<>>]
    ELSE [status |-> "raised", type |-> e.type, message |-> <<e.text>>,
          value |-> <<>>]

Except ==
    /\ pc = "except"
    /\ outcome' = Reraised(exc)
    /\ pc' = "done"
    /\ UNCHANGED <<peer, lintVars, webVars>>
    /\ UNCHANGED <<input_file, min_lines, output_file, out_content, out_handle,
                   source_code, source_lines, tree, path, next, depth, functions,
                   exc>>

Next ==
    \/ ReadFile
    \/ Parse
    \/ StartFind
    \/ visit_FunctionDef
    \/ visit_ClassDef
    \/ leave_ClassDef
    \/ leave_FunctionDef
    \/ EndFind
    \/ Sort
    \/ OpenOutput
    \/ WriteChunk
    \/ Return
    \/ Except

Spec == Init /\ [][Next]_vars

----------------------------------------------------------------------------
(* A second specification: _find_large_functions as a function of its      *)
(* arguments, called with a one-function tree whose position need not lie  *)
(* within source_lines.                                                    *)

LineArrays == {[i \in 1 .. n |-> <<"stmt">>] : n \in 0 .. MaxLines}

Spans ==
    {n \in [type : {"FunctionDef"}, name : {"f1"},
            start : 1 .. (MaxLines + 1), end : 1 .. (MaxLines + 1)] :
        n.start <= n.end}

InitExtract ==
    /\ input_file = [exists |-> TRUE, decodable |-> TRUE, content |-> <<>>]
    /\ min_lines \in 1 .. MaxMinLines
    /\ output_file = ""
    /\ out_content = OldContent
    /\ out_handle = "none"
    /\ pc = "find"
    /\ source_code = <<>>
    /\ source_lines \in LineArrays
    /\ \E n \in Spans : tree = <<n>>
    /\ path = <<>>
    /\ next = 1
    /\ depth = 0
    /\ functions = <<>>
    /\ exc = NoExc
    /\ outcome = Running
    /\ peer = NoPeer
    /\ LintIdle
    /\ WebIdle

NextExtract ==
    \/ StartFind
    \/ visit_FunctionDef
    \/ leave_FunctionDef
    \/ EndFind

SpecExtract == InitExtract /\ [][NextExtract]_vars

----------------------------------------------------------------------------
(* Properties.                                                             *)

Returned == outcome.status = "returned"
Raised == outcome.status = "raised"
Result == outcome.value

LineCount(n) == n.end - n.start + 1

\* Node i of the tree lies lexically inside some class definition.
InsideClass(i) ==
    \E c \in 1 .. Len(tree) :
        /\ tree[c].type = "ClassDef"
        /\ tree[c].start < tree[i].start
        /\ tree[i].end <= tree[c].end

FunctionNodes == {i \in 1 .. Len(tree) : tree[i].type = "FunctionDef"}
TopLevelFunctions == {i \in FunctionNodes : ~InsideClass(i)}

InResult(i) == \E k \in 1 .. Len(Result) : Result[k].function_name = tree[i].name

\* The node a record was made from (function names are unique in a document).
NodeOf(r) == CHOOSE i \in FunctionNodes : tree[i].name = r.function_name

\* C1: a function outside every class is in the returned list if and only if
\* its line_count is at least min_lines (inclusive lower bound).
C1_InclusiveThreshold ==
    Returned =>
        \A i \in TopLevelFunctions : InResult(i) <=> LineCount(tree[i]) >= min_lines

\* A call returned with one function of exactly min_lines lines in the list
\* and one of min_lines - 1 lines left out.
C1_Witness ==
    /\ Returned
    /\ \E i, j \in TopLevelFunctions :
        /\ LineCount(tree[i]) = min_lines /\ InResult(i)
        /\ LineCount(tree[j]) = min_lines - 1 /\ ~InResult(j)

\* C2: the returned list is sorted non-increasing by line_count, and records
\* of equal line_count keep the order of their definitions in the source.
C2_SortedStable ==
    Returned =>
        \A a, b \in 1 .. Len(Result) :
            a < b =>
                /\ Result[a].line_count >= Result[b].line_count
                /\ Result[a].line_count = Result[b].line_count
                      => tree[NodeOf(Result[a])].start < tree[NodeOf(Result[b])].start

\* A returned list in which the sort moved a later, larger function ahead of
\* an earlier one and which holds two records of equal size.
C2_Witness ==
    /\ Returned
    /\ \E a, b \in 1 .. Len(Result) :
        a < b /\ tree[NodeOf(Result[a])].start > tree[NodeOf(Result[b])].start
    /\ \E a, b \in 1 .. Len(Result) :
        a < b /\ Result[a].line_count = Result[b].line_count

\* C3: no function lexically inside a class definition is ever collected or
\* returned, whatever its size and the shape of the nesting.
C3_NoClassMember ==
    \A i \in FunctionNodes :
        InsideClass(i) =>
            /\ \A k \in 1 .. Len(functions) : functions[k].function_name # tree[i].name
            /\ ~InResult(i)

\* A call returned a top-level function that holds a class whose method is
\* large enough and is not in the list.
C3_Witness ==
    /\ Returned
    /\ \E f \in TopLevelFunctions, c \in 1 .. Len(tree), m \in FunctionNodes :
        /\ tree[c].type = "ClassDef"
        /\ tree[f].start < tree[c].start /\ tree[c].end <= tree[f].end
        /\ tree[c].start < tree[m].start /\ tree[m].end <= tree[c].end
        /\ LineCount(tree[m]) >= min_lines
        /\ InResult(f) /\ ~InResult(m)

\* The lines start..end (1-indexed, inclusive) of the text as the parser
\* numbers them, joined by line feeds.
OriginalLines(text, start, end) == JoinNL(SubSeq(ParserLines(text), start, end))

\* C4: the code of every returned record is exactly the source lines
\* start_line..end_line of its function, joined by newlines.
C4_CodeIsExactLines ==
    Returned =>
        \A k \in 1 .. Len(Result) :
            Result[k].code =
                OriginalLines(input_file.content, tree[NodeOf(Result[k])].start,
                              tree[NodeOf(Result[k])].end)

Contains(msg, x) == \E i \in 1 .. Len(msg) : msg[i] = x

\* C5: a call that fails ends with exactly one RuntimeError whose message holds
\* the file path and the text of the cause; no other error type escapes, and
\* no failure ends as a return.
C5_SingleErrorKind ==
    /\ Raised =>
        /\ outcome.type = "RuntimeError"
        /\ Contains(outcome.message, filepath)
        /\ Contains(outcome.message, exc.text)
        /\ exc # NoExc
    /\ pc = "done" => (Raised <=> exc # NoExc)

\* A write to the destination failed and the caller got the RuntimeError.
C5_Witness ==
    /\ Raised
    /\ exc.type = "OSError"
    /\ outcome.type = "RuntimeError"

\* C6: when the call ends with an error, the destination holds what it held
\* before the call or a complete serialized result.
C6_NoPartialOutput ==
    Raised => (out_content = OldContent \/ IsJsonArray(out_content))

InputErrors == {"FileNotFoundError", "UnicodeDecodeError", "ParserSyntaxError"}

\* C7: an input that cannot be read or parsed fails without the destination
\* ever being opened or written; the destination is touched only after
\* reading, parsing, the walk and the sort are over.
C7_NoOutputBeforeAnalysis ==
    /\ exc.type \in InputErrors => (out_handle = "none" /\ out_content = OldContent)
    /\ (out_handle # "none" \/ out_content # OldContent) =>
        /\ pc \in {"write", "except", "done"}
        /\ ParseOk(source_code)
        /\ path = <<>> /\ next > Len(tree)
        /\ functions = SortDesc(functions)

\* A syntax error was reported for a call that was given a destination.
C7_Witness ==
    /\ Raised
    /\ exc.type = "ParserSyntaxError"
    /\ output_file # ""
    /\ out_content = OldContent

\* The records the call is to return, stated over the tree: the functions
\* outside every class that are large enough, in document order.
RECURSIVE QualifyingFrom(_)
QualifyingFrom(i) ==
    IF i > Len(tree) THEN <<>>
    ELSE (IF i \in TopLevelFunctions /\ LineCount(tree[i]) >= min_lines
          THEN <<extract_function_info(tree[i], source_lines)>>
          ELSE <<>>) \o QualifyingFrom(i + 1)

\* C8: after a successful call with a destination, the destination holds an
\* array that reads back equal to the returned list, and the returned list is
\* the one the call returns without a destination.
C8_RoundTrip ==
    Returned =>
        /\ Result = SortDesc(QualifyingFrom(1))
        /\ output_file # "" =>
            /\ IsJsonArray(out_content)
            /\ json_load(out_content) = Result

\* A call with a destination returned two records or more.
C8_Witness ==
    /\ Returned
    /\ output_file # ""
    /\ Len(Result) >= 2
    /\ out_handle = "closed"

EmptyInput ==
    input_file.exists /\ input_file.decodable /\ input_file.content = <<>>

\* C9: an empty source is analysed without error: the call returns the empty
\* list, and a destination, if given, is written and holds the empty array.
\* Only the destination itself can make the call fail.
C9_EmptyInput ==
    (EmptyInput /\ pc = "done") =>
        IF Returned
        THEN /\ Result = <<>>
             /\ output_file # "" => out_content = << <<"[]">> >>
        ELSE output_file # "" /\ exc.type \in {"PermissionError", "OSError"}

\* An empty source was analysed with a destination, which holds `[]`.
C9_Witness ==
    /\ EmptyInput
    /\ Returned
    /\ output_file # ""
    /\ out_content = << <<"[]">> >>

NumLines(code) == Cardinality({i \in 1 .. Len(code) : code[i] = "NL"}) + 1

\* Node i has been visited by the walk.
Visited(i) == pc \in {"visit", "sort"} /\ i < next

----------------------------------------------------------------------------
(* linting/auto_lint.py: lint_file and the commands it runs.               *)

\* Lines 57-61: the registry, in insertion order.
LinterOrder == <<"ruff", "black", "isort">>
LINTERS == {LinterOrder[i] : i \in 1 .. Len(LinterOrder)}

\* Names a caller may pass: the known ones and one that is not registered.
RequestableNames == LINTERS \cup {"unknown_linter"}

\* What launching a tool does on the machine: it exits with 0, exits with 1,
\* runs past the timeout, is not installed, or is installed but may not be
\* executed.
Behaviours == {"exit0", "exit1", "timeout", "missing", "denied"}

\* subprocess.run(cmd, capture_output=True, text=True, timeout=30).
SubprocessRun(cmd) ==
    LET b == tools[cmd[1]]
    IN  CASE b = "exit0" ->
                [kind |-> "completed", returncode |-> 0, stdout |-> "All good",
                 stderr |-> ""]
          [] b = "exit1" ->
                [kind |-> "completed", returncode |-> 1,
                 stdout |-> "Found issues", stderr |-> ""]
          [] b = "timeout" ->
                [kind |-> "TimeoutExpired", returncode |-> 0 - 1, stdout |-> "",
                 stderr |-> ""]
          [] b = "missing" ->
                [kind |-> "FileNotFoundError", returncode |-> 0 - 1,
                 stdout |-> "", stderr |-> ""]
          [] b = "denied" ->
                [kind |-> "PermissionError", returncode |-> 0 - 1, stdout |-> "",
                 stderr |-> ""]

\* Variant: the timeout is not caught.
run_command_no_timeout(cmd) ==
    LET r == SubprocessRun(cmd)
    IN  IF r.kind = "completed"
        THEN [raised |-> "", success |-> r.returncode = 0, output |-> r.stdout,
              errors |-> r.stderr]
        ELSE IF r.kind = "FileNotFoundError"
        THEN [raised |-> "", success |-> FALSE, output |-> "",
              errors |-> "Command not found: " \o cmd[1]]
        ELSE [raised |-> r.kind, success |-> FALSE, output |-> "", errors |-> ""]

\* Lines 16-24: _run_command; an exception it does not catch goes on to the
\* caller (raised).
run_command(cmd) ==
    LET r == SubprocessRun(cmd)
    IN  IF r.kind = "completed"
        THEN [raised |-> "", success |-> r.returncode = 0, output |-> r.stdout,
              errors |-> r.stderr]
        ELSE IF r.kind = "TimeoutExpired"
        THEN [raised |-> "", success |-> FALSE, output |-> "",
              errors |-> "Command timed out"]
        ELSE IF r.kind = "FileNotFoundError"
        THEN [raised |-> "", success |-> FALSE, output |-> "",
              errors |-> "Command not found: " \o cmd[1]]
        ELSE [raised |-> r.kind, success |-> FALSE, output |-> "", errors |-> ""]

\* Lines 29-31, 39-41, 49-51: the command line of each linter.
CommandOf(name, autoFix) ==
    CASE name = "ruff" ->
            <<"ruff", "check", "file.py">>
            \o (IF autoFix THEN <<"--fix">> ELSE <<>>)
      [] name = "black" ->
            <<"black", "file.py">>
            \o (IF ~autoFix THEN <<"--check", "--diff">> ELSE <<>>)
      [] name = "isort" ->
            <<"isort", "file.py">>
            \o (IF ~autoFix THEN <<"--check-only", "--diff">> ELSE <<>>)

\* Lines 27-54: _run_ruff, _run_black, _run_isort: the LintResult, or the
\* exception that came out of _run_command.
RunLinter(name, autoFix) ==
    LET r == run_command(CommandOf(name, autoFix))
    IN  [raised |-> r.raised,
         result |-> [file_path |-> "file.py", success |-> r.success,
                     output |-> r.output, errors |-> r.errors]]

LintRequests ==
    UNION {[1 .. n -> RequestableNames] : n \in 0 .. MaxLinters}

InitLint ==
    /\ file_path \in {[exists |-> TRUE, suffix |-> ".py"],
                      [exists |-> TRUE, suffix |-> ".txt"],
                      [exists |-> FALSE, suffix |-> ".py"]}
    /\ linters \in LintRequests
    /\ auto_fix \in BOOLEAN
    /\ tools \in [LINTERS -> Behaviours]
    /\ linter_idx = 1
    /\ results = <<>>
    /\ lint_stdout = <<>>
    /\ lint_pc = "start"
    /\ lint_outcome = [status |-> "running", type |-> ""]
    /\ WebIdle
    /\ peer = NoPeer
    /\ input_file = [exists |-> FALSE, decodable |-> TRUE, content |-> <<>>]
    /\ min_lines = 1
    /\ output_file = ""
    /\ out_content = OldContent
    /\ out_handle = "none"
    /\ pc = "none"
    /\ source_code = <<>>
    /\ source_lines = <<>>
    /\ tree = <<>>
    /\ path = <<>>
    /\ next = 1
    /\ depth = 0
    /\ functions = <<>>
    /\ exc = NoExc
    /\ outcome = Running

\* Lines 78-85: the checks of the argument, the default list, the empty dict.
\* `linters or ...` replaces None and the empty list alike.
LintStart ==
    /\ lint_pc = "start"
    /\ IF ~file_path.exists
       THEN /\ lint_outcome' = [status |-> "raised", type |-> "FileNotFoundError"]
            /\ lint_pc' = "done"
            /\ UNCHANGED linters
       ELSE IF file_path.suffix # ".py"
       THEN /\ lint_outcome' = [status |-> "raised", type |-> "ValueError"]
            /\ lint_pc' = "done"
            /\ UNCHANGED linters
       ELSE /\ linters' = IF linters = <<>> THEN LinterOrder ELSE linters
            /\ lint_pc' = "loop"
            /\ UNCHANGED lint_outcome
    /\ results' = <<>>
    /\ UNCHANGED <<file_path, auto_fix, tools, linter_idx, lint_stdout>>
    /\ UNCHANGED <<extractVars, peer, webVars>>

\* Variant: an unknown name ends the loop (break instead of continue).
LintSkipUnknownBreak ==
    /\ lint_pc = "loop"
    /\ linter_idx <= Len(linters)
    /\ linters[linter_idx] \notin LINTERS
    /\ lint_stdout' = Append(lint_stdout,
            "Warning: Unknown linter '" \o linters[linter_idx] \o "', skipping")
    /\ linter_idx' = Len(linters) + 1
    /\ UNCHANGED <<file_path, linters, auto_fix, tools, results, lint_pc,
                   lint_outcome>>
    /\ UNCHANGED <<extractVars, peer, webVars>>

\* Lines 90-93: an unknown name is warned about and skipped.
LintSkipUnknown ==
    /\ lint_pc = "loop"
    /\ linter_idx <= Len(linters)
    /\ linters[linter_idx] \notin LINTERS
    /\ lint_stdout' = Append(lint_stdout,
            "Warning: Unknown linter '" \o linters[linter_idx] \o "', skipping")
    /\ linter_idx' = linter_idx + 1
    /\ UNCHANGED <<file_path, linters, auto_fix, tools, results, lint_pc,
                   lint_outcome>>
    /\ UNCHANGED <<extractVars, peer, webVars>>

\* results[name] = result
DictSet(d, k, v) == [x \in (DOMAIN d) \cup {k} |-> IF x = k THEN v ELSE d[x]]

\* Lines 95-103: run a known linter; its result goes into results, and is
\* printed when it failed (verbose is left at its default, False); an
\* exception is printed and leaves no entry.
LintRun ==
    /\ lint_pc = "loop"
    /\ linter_idx <= Len(linters)
    /\ linters[linter_idx] \in LINTERS
    /\ LET name == linters[linter_idx]
           r == RunLinter(name, auto_fix)
       IN  IF r.raised = ""
           THEN /\ results' = DictSet(results, name, r.result)
                /\ lint_stdout' =
                      IF r.result.success THEN lint_stdout
                      ELSE Append(lint_stdout, "x " \o name \o ": file.py")
           ELSE /\ lint_stdout' =
                      Append(lint_stdout, "Error running " \o name \o " on file.py")
                /\ UNCHANGED results
    /\ linter_idx' = linter_idx + 1
    /\ UNCHANGED <<file_path, linters, auto_fix, tools, lint_pc, lint_outcome>>
    /\ UNCHANGED <<extractVars, peer, webVars>>

\* Line 105.
LintReturn ==
    /\ lint_pc = "loop"
    /\ linter_idx > Len(linters)
    /\ lint_pc' = "done"
    /\ lint_outcome' = [status |-> "returned", type |-> "dict"]
    /\ UNCHANGED <<file_path, linters, auto_fix, tools, linter_idx, results,
                   lint_stdout>>
    /\ UNCHANGED <<extractVars, peer, webVars>>

NextLint ==
    \/ LintStart
    \/ LintSkipUnknown
    \/ LintRun
    \/ LintReturn

SpecLint == InitLint /\ [][NextLint]_vars

LintReturned == lint_outcome.status = "returned"

\* The names lint_file was asked to run (the registry when none was given).
Requested == {linters[i] : i \in 1 .. Len(linters)}

Printed(line) == \E i \in 1 .. Len(lint_stdout) : lint_stdout[i] = line

\* C11 as stated: the keys of the returned dict are exactly the requested
\* names that are known.
C11_EntryPerKnownLinter ==
    LintReturned => DOMAIN results = Requested \cap LINTERS

\* C11, amended: the keys of the returned dict are exactly the requested names
\* that are known and whose command did not raise an exception other than a
\* timeout or a missing executable; every unknown name was warned about, is
\* no key, and the names after it were still run.
C11_EntryPerLinterThatRan ==
    LintReturned =>
        /\ DOMAIN results = {n \in Requested \cap LINTERS : tools[n] # "denied"}
        /\ \A n \in Requested \ LINTERS :
            /\ n \notin DOMAIN results
            /\ Printed("Warning: Unknown linter '" \o n \o "', skipping")

\* lint_file returned after an unknown name followed by a known one: the
\* unknown one was warned about and the known one has its entry.
C11_Witness ==
    /\ LintReturned
    /\ Len(linters) = 2
    /\ linters[1] \notin LINTERS
    /\ linters[2] \in LINTERS
    /\ DOMAIN results = {linters[2]}
    /\ Printed("Warning: Unknown linter 'unknown_linter', skipping")

\* The exit code of a tool that runs to its end.
ExitCode(b) == IF b = "exit0" THEN 0 ELSE 1

\* C12: a timeout and a missing executable are reported in the linter's entry
\* (success False and the fixed error text), never as an exception of
\* lint_file, and an entry has success True exactly when the command exited
\* with code 0.
C12_FailuresAreValues ==
    /\ (lint_pc = "done" /\ file_path.exists /\ file_path.suffix = ".py")
          => LintReturned
    /\ LintReturned =>
        \A n \in Requested \cap LINTERS :
            /\ tools[n] = "timeout" =>
                /\ n \in DOMAIN results
                /\ results[n].success = FALSE
                /\ results[n].errors = "Command timed out"
            /\ tools[n] = "missing" =>
                /\ n \in DOMAIN results
                /\ results[n].success = FALSE
                /\ results[n].errors = "Command not found: " \o n
            /\ tools[n] \in {"exit0", "exit1"} =>
                /\ n \in DOMAIN results
                /\ results[n].success <=> ExitCode(tools[n]) = 0

\* lint_file returned entries for a linter that timed out and for one that is
\* not installed.
C12_Witness ==
    /\ LintReturned
    /\ \E a, b \in DOMAIN results :
        /\ tools[a] = "timeout" /\ results[a].errors = "Command timed out"
        /\ tools[b] = "missing" /\ ~results[b].success

----------------------------------------------------------------------------
(* The depth counter of FunctionFinder.                                    *)

\* Node c lexically encloses node i.
Encloses(c, i) == tree[c].start < tree[i].start /\ tree[i].end <= tree[c].end

ClassNodes == {i \in 1 .. Len(tree) : tree[i].type = "ClassDef"}

EnclosingClasses(i) == {c \in ClassNodes : Encloses(c, i)}

\* Functions defined inside another function and inside no class.
NestedInFunctionOnly ==
    {i \in TopLevelFunctions : \E f \in FunctionNodes : Encloses(f, i)}

RecordsOf(i) == {k \in 1 .. Len(Result) : Result[k].function_name = tree[i].name}

\* C14: only class nesting excludes a candidate: a function defined inside
\* another function and inside no class is visited with depth 0 and, whenever
\* its line_count is at least min_lines, has its own record in the result
\* next to the record of each function that encloses it.
C14_NestedFunctionCollected ==
    /\ (pc = "visit" /\ CanEnter) =>
        (next \in NestedInFunctionOnly => depth = 0)
    /\ Returned =>
        \A i \in NestedInFunctionOnly :
            LineCount(tree[i]) >= min_lines =>
                /\ Cardinality(RecordsOf(i)) = 1
                /\ \A k \in RecordsOf(i) : Result[k].line_count = LineCount(tree[i])
                /\ \A f \in FunctionNodes :
                    Encloses(f, i) =>
                        /\ Cardinality(RecordsOf(f)) = 1
                        /\ RecordsOf(f) # RecordsOf(i)

\* A call returned the record of a function nested in a function together
\* with the record of the enclosing function.
C14_Witness ==
    /\ Returned
    /\ \E i \in NestedInFunctionOnly, f \in TopLevelFunctions :
        /\ Encloses(f, i)
        /\ LineCount(tree[i]) >= min_lines
        /\ InResult(i)
        /\ InResult(f)

\* The classes the walk has entered and not left.
OpenClasses == {k \in 1 .. Len(path) : tree[path[k]].type = "ClassDef"}

\* C15: during the walk the depth counter is the number of class definitions
\* that enclose the node being visited: it is never negative, and it is zero
\* exactly when the walk is inside no class definition.
C15_DepthCountsEnclosingClasses ==
    pc = "visit" =>
        /\ depth >= 0
        /\ depth = Cardinality(OpenClasses)
        /\ depth = 0 <=> OpenClasses = {}
        /\ IF CanEnter
           THEN depth = Cardinality(EnclosingClasses(next))
           ELSE path # <<>> =>
                  depth = Cardinality(EnclosingClasses(Top))
                          + (IF tree[Top].type = "ClassDef" THEN 1 ELSE 0)

\* The walk is back in an outer class, at depth 1, after it entered and left
\* a class nested in it at depth 2.
C15_Witness ==
    /\ pc = "visit"
    /\ depth = 1
    /\ path = <<1>>
    /\ next = 3
    /\ tree[2].type = "ClassDef"
    /\ Encloses(1, 2)

\* Variant: the extraction is made before the depth is tested.
extract_function_info_raises_any_depth ==
    /\ pc = "visit"
    /\ CanEnter
    /\ tree[next].type = "FunctionDef"
    /\ Raise("MemoryError", "out of memory")
    /\ UNCHANGED <<peer, lintVars, webVars>>
    /\ UNCHANGED <<input_file, min_lines, output_file, out_content, out_handle,
                   source_code, source_lines, tree, path, next, depth, functions,
                   outcome>>

\* Lines 47-48: _extract_function_info is called for a function visited at
\* depth 0 and raises; nothing in the walk catches the exception, which
\* leaves wrapper.visit for the handler of line 91.
extract_function_info_raises ==
    /\ pc = "visit"
    /\ CanEnter
    /\ tree[next].type = "FunctionDef"
    /\ IsTopLevelVisit(depth)
    /\ Raise("MemoryError", "out of memory")
    /\ UNCHANGED <<peer, lintVars, webVars>>
    /\ UNCHANGED <<input_file, min_lines, output_file, out_content, out_handle,
                   source_code, source_lines, tree, path, next, depth, functions,
                   outcome>>

NextWalk == Next \/ extract_function_info_raises

SpecWalk == Init /\ [][NextWalk]_vars

\* Control has left wrapper.visit, by its return or by an exception.
TraversalOver ==
    \/ pc \in {"sort", "persist", "write"}
    \/ pc \in {"except", "done"} /\ exc.type \notin InputErrors

\* C16: whenever the walk is over, by its return or by an error of the
\* extraction of a function, the depth counter is zero: every class entered
\* has been left.
C16_DepthZeroOnExit ==
    TraversalOver => (depth = 0 /\ OpenClasses = {})

\* The extraction of a function failed after the walk had entered and left a
\* class, and the call ended with the error.
C16_Witness ==
    /\ pc = "done"
    /\ Raised
    /\ exc.type = "MemoryError"
    /\ depth = 0
    /\ \E k \in ClassNodes : k < next

----------------------------------------------------------------------------
(* Two invocations of extract_large_functions at a time.                   *)

\* The destination of the second invocation.
OutPath2 == "out2.json"

\* The sources the two invocations are given: a function followed by a class
\* with a method, a function with a nested function followed by another
\* function, a class with a method, a header without a body.
ConcDocs ==
    {<<[kind |-> "def", indent |-> 0], [kind |-> "stmt", indent |-> 1],
       [kind |-> "class", indent |-> 0], [kind |-> "def1", indent |-> 1]>>,
     <<[kind |-> "def", indent |-> 0], [kind |-> "def1", indent |-> 1],
       [kind |-> "def1", indent |-> 0]>>,
     <<[kind |-> "class", indent |-> 0], [kind |-> "def", indent |-> 1],
       [kind |-> "stmt", indent |-> 2]>>,
     <<[kind |-> "def", indent |-> 0]>>}

ConcInputs ==
    {[exists |-> TRUE, decodable |-> TRUE, content |-> Render(d)] : d \in ConcDocs}
    \cup {[exists |-> FALSE, decodable |-> TRUE, content |-> <<>>]}

\* The locals of the invocation that is running, as invocation i.
Frame(i) ==
    [id |-> i, input_file |-> input_file, min_lines |-> min_lines,
     output_file |-> output_file, out_content |-> out_content,
     out_handle |-> out_handle, pc |-> pc, source_code |-> source_code,
     source_lines |-> source_lines, tree |-> tree, path |-> path,
     next |-> next, depth |-> depth, functions |-> functions, exc |-> exc,
     outcome |-> outcome]

\* The invocation that is running.
Current == Frame(3 - peer.id)

InitConc ==
    /\ input_file \in ConcInputs
    /\ min_lines \in 1 .. MaxMinLines
    /\ output_file = OutPath
    /\ out_content = OldContent
    /\ out_handle = "none"
    /\ pc = "read"
    /\ source_code = <<>>
    /\ source_lines = <<>>
    /\ tree = <<>>
    /\ path = <<>>
    /\ next = 1
    /\ depth = 0
    /\ functions = <<>>
    /\ exc = NoExc
    /\ outcome = Running
    /\ \E f \in ConcInputs, m \in 1 .. MaxMinLines :
        peer = [id |-> 2, input_file |-> f, min_lines |-> m,
                output_file |-> OutPath2, out_content |-> OldContent,
                out_handle |-> "none", pc |-> "read", source_code |-> <<>>,
                source_lines |-> <<>>, tree |-> <<>>, path |-> <<>>,
                next |-> 1, depth |-> 0, functions |-> <<>>, exc |-> NoExc,
                outcome |-> Running]
    /\ LintIdle
    /\ WebIdle

\* Variant: the candidate list is one module-level list, the same for both
\* invocations.
SwitchSharedFunctions ==
    /\ peer.pc # "done"
    /\ peer' = Current
    /\ input_file' = peer.input_file
    /\ min_lines' = peer.min_lines
    /\ output_file' = peer.output_file
    /\ out_content' = peer.out_content
    /\ out_handle' = peer.out_handle
    /\ pc' = peer.pc
    /\ source_code' = peer.source_code
    /\ source_lines' = peer.source_lines
    /\ tree' = peer.tree
    /\ path' = peer.path
    /\ next' = peer.next
    /\ depth' = peer.depth
    /\ UNCHANGED functions
    /\ exc' = peer.exc
    /\ outcome' = peer.outcome
    /\ UNCHANGED <<lintVars, webVars>>

\* The other invocation is scheduled.  Every name the code assigns is a local
\* of its call (lines 37-38, 58, 76-82) and each call has its own files, so a
\* switch exchanges all of them.
Switch ==
    /\ peer.pc # "done"
    /\ peer' = Current
    /\ input_file' = peer.input_file
    /\ min_lines' = peer.min_lines
    /\ output_file' = peer.output_file
    /\ out_content' = peer.out_content
    /\ out_handle' = peer.out_handle
    /\ pc' = peer.pc
    /\ source_code' = peer.source_code
    /\ source_lines' = peer.source_lines
    /\ tree' = peer.tree
    /\ path' = peer.path
    /\ next' = peer.next
    /\ depth' = peer.depth
    /\ functions' = peer.functions
    /\ exc' = peer.exc
    /\ outcome' = peer.outcome
    /\ UNCHANGED <<lintVars, webVars>>

NextConc == Next \/ Switch

SpecConc == InitConc /\ [][NextConc]_vars

\* What a call alone makes of a file: the error of its input, if any, ...
AloneError(file) ==
    IF ~file.exists THEN "FileNotFoundError"
    ELSE IF ~file.decodable THEN "UnicodeDecodeError"
    ELSE IF ~ParseOk(file.content) THEN "ParserSyntaxError"
    ELSE ""

InsideClassIn(t, i) ==
    \E c \in 1 .. Len(t) :
        /\ t[c].type = "ClassDef"
        /\ t[c].start < t[i].start
        /\ t[i].end <= t[c].end

\* ... the candidates among the first n nodes of its tree, ...
RECURSIVE CollectedUpTo(_, _, _, _)
CollectedUpTo(t, lines, ml, n) ==
    IF n = 0 THEN <<>>
    ELSE CollectedUpTo(t, lines, ml, n - 1) \o
         (IF t[n].type = "FunctionDef" /\ ~InsideClassIn(t, n)
             /\ LineCount(t[n]) >= ml
          THEN <<extract_function_info(t[n], lines)>>
          ELSE <<>>)

\* ... and the list it returns.
AloneResult(file, ml) ==
    LET t == parse_module(file.content)
    IN  SortDesc(CollectedUpTo(t, splitlines(file.content), ml, Len(t)))

IsPrefix(a, b) == Len(a) <= Len(b) /\ a = SubSeq(b, 1, Len(a))

\* Invocation F is where a call alone on F's file is at F's step.
RunsAsAlone(F) ==
    LET file == F.input_file
        err == AloneError(file)
    IN  /\ F.pc \in {"find", "visit", "sort", "persist", "write"} =>
            /\ err = ""
            /\ F.source_lines = splitlines(file.content)
            /\ F.tree = parse_module(file.content)
        /\ F.pc = "visit" =>
            /\ F.functions =
                  CollectedUpTo(F.tree, F.source_lines, F.min_lines, F.next - 1)
            /\ F.depth = Cardinality({k \in 1 .. Len(F.path) :
                                        F.tree[F.path[k]].type = "ClassDef"})
        /\ F.pc \in {"persist", "write"} =>
            F.functions = AloneResult(file, F.min_lines)
        /\ IF err # ""
           THEN F.out_content = OldContent
           ELSE \/ F.out_content = OldContent
                \/ IsPrefix(F.out_content,
                            json_dump(AloneResult(file, F.min_lines)))
        /\ F.pc = "done" =>
            IF err # ""
            THEN F.outcome.status = "raised" /\ F.exc.type = err
            ELSE IF F.outcome.status = "returned"
            THEN /\ F.outcome.value = AloneResult(file, F.min_lines)
                 /\ F.out_content = json_dump(F.outcome.value)
            ELSE F.exc.type \in {"PermissionError", "OSError"}

\* C17: invocations share no mutable state: when two of them run at a time,
\* on their own files and destinations, then under every interleaving of
\* their steps each has the lines, depth, candidates and destination of a
\* call alone, and returns and persists what a call alone does.
C17_InvocationsIndependent ==
    RunsAsAlone(Current) /\ RunsAsAlone(peer)

\* The second invocation has returned its list while the first, which has
\* candidates of its own, is in the middle of writing its destination.
C17_Witness ==
    /\ peer.id = 1
    /\ peer.pc = "write"
    /\ peer.functions # <<>>
    /\ peer.out_content # OldContent
    /\ pc = "done"
    /\ Returned
    /\ Result # <<>>
    /\ Result # peer.functions
    /\ out_content = json_dump(Result)

----------------------------------------------------------------------------
(* app/main.py: the webhook endpoint.                                      *)

\* A header that the request does not carry (Header(None)).
NoHeader == "<none>"

\* GITHUB_WEBHOOK_SECRET in the environment: unset, empty, or a secret.
Unset == "<unset>"
EnvValues == {Unset, "", "s1", "s2"}

\* Line 8: (os.getenv("GITHUB_WEBHOOK_SECRET") or "").encode()
LoadSecret(env) == IF env = Unset THEN "" ELSE env

Bodies == {"b1", "b2"}
Events == {"push", NoHeader}

\* hmac.new(key, msg, sha256).hexdigest(): a digest that names its key and
\* its message (no two pairs collide).
HmacHex(key, msg) == "h(" \o key \o "," \o msg \o ")"

\* A signature header that is not ASCII text.
NonAscii == "sha256=<e-acute>"

\* What a client may send as X-Hub-Signature-256: nothing, the empty string,
\* the digest of any body under any key with or without the prefix, or text
\* that is not ASCII.
Signatures ==
    {NoHeader, "", NonAscii}
    \cup {"sha256=" \o HmacHex(k, b) : k \in {"", "s1", "s2"}, b \in Bodies}
    \cup {HmacHex(k, b) : k \in {"", "s1", "s2"}, b \in Bodies}

Requests == [body : Bodies, event : Events, signature : Signatures]

\* hmac.compare_digest on two str: a TypeError unless both are ASCII.
compare_digest(a, b) ==
    IF a = NonAscii \/ b = NonAscii
    THEN [raised |-> "TypeError", value |-> FALSE]
    ELSE [raised |-> "", value |-> a = b]

\* Variant: the test of the secret is missing.
verify_signature_any_secret(payload, signature) ==
    IF signature \in {NoHeader, ""}
    THEN [raised |-> "", value |-> FALSE]
    ELSE compare_digest("sha256=" \o HmacHex(WEBHOOK_SECRET, payload), signature)

\* Lines 10-15.
verify_signature(payload, signature) ==
    IF WEBHOOK_SECRET = "" \/ signature \in {NoHeader, ""}
    THEN [raised |-> "", value |-> FALSE]
    ELSE compare_digest("sha256=" \o HmacHex(WEBHOOK_SECRET, payload), signature)

InitWebhook ==
    /\ \E env \in EnvValues : WEBHOOK_SECRET = LoadSecret(env)
    /\ request = [body |-> "", event |-> "", signature |-> ""]
    /\ response = ""
    /\ web_stdout = <<>>
    /\ handled = 0
    /\ LintIdle
    /\ peer = NoPeer
    /\ input_file = [exists |-> FALSE, decodable |-> TRUE, content |-> <<>>]
    /\ min_lines = 1
    /\ output_file = ""
    /\ out_content = OldContent
    /\ out_handle = "none"
    /\ pc = "none"
    /\ source_code = <<>>
    /\ source_lines = <<>>
    /\ tree = <<>>
    /\ path = <<>>
    /\ next = 1
    /\ depth = 0
    /\ functions = <<>>
    /\ exc = NoExc
    /\ outcome = Running

\* Lines 17-28: one request, from its arrival to its answer.  An exception in
\* the handler is answered by the framework with status 500.
github_webhook ==
    /\ handled < MaxRequests
    /\ \E req \in Requests :
        LET v == verify_signature(req.body, req.signature)
        IN  /\ request' = req
            /\ IF v.raised # ""
               THEN response' = "500" /\ UNCHANGED web_stdout
               ELSE IF ~v.value
               THEN response' = "invalid signature" /\ UNCHANGED web_stdout
               ELSE /\ response' = "ok"
                    /\ web_stdout' = Append(web_stdout, req.event)
    /\ handled' = handled + 1
    /\ UNCHANGED WEBHOOK_SECRET
    /\ UNCHANGED <<extractVars, peer, lintVars>>

NextWebhook == github_webhook

SpecWebhook == InitWebhook /\ [][NextWebhook]_vars

\* The answer to a request and what it left on the log, as C13 has it.
AnsweredAsClaimed ==
    LET sig == request'.signature
        valid == sig = "sha256=" \o HmacHex(WEBHOOK_SECRET, request'.body)
    IN  /\ response' = "ok" => (valid /\ WEBHOOK_SECRET # "")
        /\ web_stdout' # web_stdout =>
            /\ valid
            /\ response' = "ok"
            /\ web_stdout' = Append(web_stdout, request'.event)
        /\ response' = "ok" => web_stdout' # web_stdout
        /\ (sig = NoHeader \/ WEBHOOK_SECRET = "") =>
            /\ response' = "invalid signature"
            /\ web_stdout' = web_stdout

\* C13: a request is answered 'ok' and its event type recorded only when its
\* signature is 'sha256=' followed by the HMAC of its body under the secret;
\* without a signature header, or with an empty or unset secret, it is
\* answered 'invalid signature' and nothing is recorded.
C13_OnlySignedRequestsAccepted ==
    [][handled' = handled + 1 => AnsweredAsClaimed]_vars

\* After a rejected request, a correctly signed one was answered 'ok' and its
\* event type is the only one recorded.
C13_Witness ==
    /\ handled = 2
    /\ response = "ok"
    /\ WEBHOOK_SECRET # ""
    /\ request.signature = "sha256=" \o HmacHex(WEBHOOK_SECRET, request.body)
    /\ web_stdout = <<request.event>>

====
